---- MODULE Spec2Model ----
(***************************************************************************)
(* Allergen probability engine and safety validation gate of the           *)
(* restaurant recommendation application, as laid down in the repository's *)
(* agent implementation guides (Allergen Analyzer, Safety & QA).            *)
(* The web client (home page with card deck and map, streaming test page,  *)
(* location service) and the restaurant API routes follow the pipeline,    *)
(* each with a specification of its own.                                   *)
(*                                                                         *)
(* Probabilities, weights and confidences are integers in hundredths       *)
(* (0.85 is 85).  The raw dish confidence is kept in ten-thousandths       *)
(* (conf10000) so that the weighted sum of the guide is exact.             *)
(***************************************************************************)
EXTENDS Integers, Sequences, FiniteSets, TLC

\* The analysis request and its progress through the pipeline.
VARIABLES input, pc, analyzed, profiles, summary, result

\* The web client and its API routes: the home page with its card deck and
\* map, a request to a restaurant API route, the streaming test page and the
\* location service.
VARIABLES home, route, client, service

pipeline == <<input, pc, analyzed, profiles, summary, result>>

frontend == <<home, route, client, service>>

vars == <<input, pc, analyzed, profiles, summary, result,
          home, route, client, service>>

(***************************************************************************)
(* Bounds of the model                                                     *)
(***************************************************************************)
MaxDishes == 2

(***************************************************************************)
(* Enumerations                                                            *)
(***************************************************************************)
AllergenType ==
    {"GLUTEN", "DAIRY", "EGGS", "SOY", "PEANUTS", "TREE_NUTS",
     "SHELLFISH", "FISH", "SESAME", "CORN", "SULFITES"}

ExplicitKinds ==
    {"ALLERGEN_NOTE", "EXPLICIT_INGREDIENT", "DISH_ARCHETYPE", "COOKING_METHOD"}

EvidenceType == ExplicitKinds \cup {"CUISINE_PRIOR"}

(***************************************************************************)
(* Arithmetic helpers                                                      *)
(***************************************************************************)
Max2(a, b) == IF a >= b THEN a ELSE b

Min2(a, b) == IF a <= b THEN a ELSE b

SetMax(S) == CHOOSE x \in S : \A y \in S : y <= x

(***************************************************************************)
(* Knowledge base: cuisine priors and ingredient / archetype tables        *)
(***************************************************************************)
NoPriors == [a \in AllergenType |-> 0]

Row(pairs) ==
    [a \in AllergenType |->
        IF \E p \in pairs : p[1] = a
        THEN (CHOOSE p \in pairs : p[1] = a)[2]
        ELSE 0]

CUISINE_PRIORS ==
    [c \in {"italian", "burger", "vegan", "default"} |->
        CASE c = "italian" ->
               Row({<<"GLUTEN", 85>>, <<"DAIRY", 75>>, <<"EGGS", 40>>,
                    <<"SOY", 15>>, <<"TREE_NUTS", 25>>, <<"SHELLFISH", 15>>,
                    <<"FISH", 20>>})
          [] c = "burger" ->
               Row({<<"GLUTEN", 90>>, <<"DAIRY", 65>>, <<"SOY", 75>>,
                    <<"EGGS", 30>>, <<"SESAME", 40>>})
          [] c = "vegan" ->
               Row({<<"DAIRY", 1>>, <<"EGGS", 1>>, <<"FISH", 1>>,
                    <<"SHELLFISH", 1>>, <<"SOY", 75>>, <<"GLUTEN", 50>>,
                    <<"TREE_NUTS", 45>>})
          [] c = "default" ->
               Row({<<"GLUTEN", 50>>, <<"DAIRY", 40>>, <<"EGGS", 30>>,
                    <<"SOY", 35>>, <<"PEANUTS", 15>>, <<"TREE_NUTS", 15>>,
                    <<"SHELLFISH", 20>>, <<"FISH", 20>>, <<"SESAME", 15>>,
                    <<"CORN", 20>>, <<"SULFITES", 10>>})]

\* Variant without the default row for a missing or unknown cuisine.
CuisinePriorNoFallback(cuisine, a) ==
    IF cuisine \in DOMAIN CUISINE_PRIORS
    THEN CUISINE_PRIORS[cuisine][a]
    ELSE 0

\* The prior of an allergen in a cuisine; a missing or unknown cuisine uses
\* the default row, an allergen absent from a known row has no prior (0).
CuisinePrior(cuisine, a) ==
    IF cuisine \in DOMAIN CUISINE_PRIORS
    THEN CUISINE_PRIORS[cuisine][a]
    ELSE CUISINE_PRIORS["default"][a]

INGREDIENT_ALLERGEN_MAP ==
    [i \in {"wheat", "pasta", "cheese", "mayo", "tofu", "soybean oil",
            "fried", "breaded", "battered"} |->
        CASE i = "wheat"       -> Row({<<"GLUTEN", 100>>})
          [] i = "pasta"       -> Row({<<"GLUTEN", 95>>, <<"EGGS", 40>>})
          [] i = "cheese"      -> Row({<<"DAIRY", 98>>})
          [] i = "mayo"        -> Row({<<"EGGS", 95>>, <<"SOY", 30>>})
          [] i = "tofu"        -> Row({<<"SOY", 98>>})
          [] i = "soybean oil" -> Row({<<"SOY", 90>>})
          [] i = "fried"       -> Row({<<"SOY", 60>>})
          [] i = "breaded"     -> Row({<<"GLUTEN", 90>>, <<"EGGS", 50>>})
          [] i = "battered"    -> Row({<<"GLUTEN", 92>>, <<"EGGS", 45>>})]

_map_ingredient_to_allergens(ingredient) ==
    IF ingredient \in DOMAIN INGREDIENT_ALLERGEN_MAP
    THEN INGREDIENT_ALLERGEN_MAP[ingredient]
    ELSE NoPriors

DISH_ARCHETYPES ==
    [n \in {"burger", "pasta"} |->
        CASE n = "burger" -> Row({<<"GLUTEN", 90>>})
          [] n = "pasta"  -> Row({<<"GLUTEN", 75>>})]

ArchetypeWeights(archetype) ==
    IF archetype \in DOMAIN DISH_ARCHETYPES
    THEN DISH_ARCHETYPES[archetype]
    ELSE NoPriors

(***************************************************************************)
(* Menu items.  An item carries what the menu parser and the semantic      *)
(* analysis returned for it: the allergens named in a "Contains:" note     *)
(* with the weight given to each note, the ingredients and preparation     *)
(* methods mentioned, the archetype its name matches, the description      *)
(* clarity and ambiguity scores, and the confidence contribution given to  *)
(* evidence that rests on the cuisine alone.                               *)
(***************************************************************************)
Cheeseburger ==
    [name |-> "Cheeseburger",
     declared |-> {<<"GLUTEN", 98>>, <<"DAIRY", 95>>, <<"SOY", 85>>},
     ingredients_mentioned |-> {"cheese"},
     preparation_methods |-> {},
     archetype |-> "burger",
     clarity |-> 100, ambiguity |-> 0,
     prior_contribution |-> 70]

ChefsSpecial ==
    [name |-> "Chef's Special",
     declared |-> {},
     ingredients_mentioned |-> {},
     preparation_methods |-> {},
     archetype |-> "none",
     clarity |-> 0, ambiguity |-> 100,
     prior_contribution |-> 50]

ChefsSpecialPasta ==
    [name |-> "Chef's Special Pasta",
     declared |-> {},
     ingredients_mentioned |-> {"pasta"},
     preparation_methods |-> {},
     archetype |-> "pasta",
     clarity |-> 50, ambiguity |-> 50,
     prior_contribution |-> 50]

OnionRings ==
    [name |-> "Onion Rings",
     declared |-> {<<"GLUTEN", 95>>, <<"DAIRY", 90>>},
     ingredients_mentioned |-> {"wheat"},
     preparation_methods |-> {"battered"},
     archetype |-> "none",
     clarity |-> 100, ambiguity |-> 0,
     prior_contribution |-> 60]

FrenchFries ==
    [name |-> "French Fries",
     declared |-> {},
     ingredients_mentioned |-> {"soybean oil"},
     preparation_methods |-> {"fried"},
     archetype |-> "none",
     clarity |-> 100, ambiguity |-> 50,
     prior_contribution |-> 70]

MenuCatalog ==
    {Cheeseburger, ChefsSpecial, ChefsSpecialPasta, OnionRings, FrenchFries}

(***************************************************************************)
(* Evidence generation                                                     *)
(***************************************************************************)
NoteEvidence(item, a) ==
    {[evidence_type |-> "ALLERGEN_NOTE", confidence_contribution |-> d[2]] :
        d \in {e \in item.declared : e[1] = a}}

IngredientEvidence(item, a) ==
    {[evidence_type |-> "EXPLICIT_INGREDIENT",
      confidence_contribution |-> _map_ingredient_to_allergens(i)[a]] :
        i \in {j \in item.ingredients_mentioned :
                  _map_ingredient_to_allergens(j)[a] > 0}}

ArchetypeEvidence(item, a) ==
    IF ArchetypeWeights(item.archetype)[a] > 0
    THEN {[evidence_type |-> "DISH_ARCHETYPE",
           confidence_contribution |-> ArchetypeWeights(item.archetype)[a]]}
    ELSE {}

MethodEvidence(item, a) ==
    {[evidence_type |-> "COOKING_METHOD",
      confidence_contribution |-> _map_ingredient_to_allergens(m)[a]] :
        m \in {j \in item.preparation_methods :
                  _map_ingredient_to_allergens(j)[a] > 0}}

ExplicitEvidence(item, a) ==
    NoteEvidence(item, a) \cup IngredientEvidence(item, a)
        \cup ArchetypeEvidence(item, a) \cup MethodEvidence(item, a)

\* Variant that adds the cuisine evidence to the explicit evidence.
EvidenceAlwaysWithCuisine(a, item, cuisine) ==
    ExplicitEvidence(item, a)
      \cup (IF CuisinePrior(cuisine, a) > 0
            THEN {[evidence_type |-> "CUISINE_PRIOR",
                   confidence_contribution |-> item.prior_contribution]}
            ELSE {})

\* Evidence objects supporting the claim for one allergen: the explicit
\* evidence, or the cuisine when there is none and the cuisine has a prior
\* for the allergen.  Cuisine evidence carries the contribution of its kind,
\* not the prior.
_generate_evidence(a, item, cuisine) ==
    IF ExplicitEvidence(item, a) # {}
    THEN ExplicitEvidence(item, a)
    ELSE IF CuisinePrior(cuisine, a) > 0
         THEN {[evidence_type |-> "CUISINE_PRIOR",
                confidence_contribution |-> item.prior_contribution]}
         ELSE {}

(***************************************************************************)
(* Probability of one allergen in one dish                                 *)
(***************************************************************************)
P_FLOOR == 1

P_CAP == 98

SetMin(S) == CHOOSE x \in S : \A y \in S : x <= y

\* Variant that takes the weakest explicit evidence.
WeakestEvidenceProbability(evidence_list, cuisine_prior) ==
    LET explicit == {e \in evidence_list : e.evidence_type \in ExplicitKinds}
        P == IF explicit # {}
             THEN SetMin({e.confidence_contribution : e \in explicit})
             ELSE cuisine_prior
    IN  Min2(Max2(P, P_FLOOR), P_CAP)

\* Variant without the floor and the cap.
UnclampedProbability(evidence_list, cuisine_prior) ==
    LET explicit == {e \in evidence_list : e.evidence_type \in ExplicitKinds}
    IN  IF explicit # {}
        THEN SetMax({e.confidence_contribution : e \in explicit})
        ELSE cuisine_prior

_calculate_allergen_probability(evidence_list, cuisine_prior) ==
    LET explicit == {e \in evidence_list : e.evidence_type \in ExplicitKinds}
        P == IF explicit # {}
             THEN SetMax({e.confidence_contribution : e \in explicit})
             ELSE cuisine_prior
    IN  Min2(Max2(P, P_FLOOR), P_CAP)

(***************************************************************************)
(* Confidence of one dish analysis                                         *)
(***************************************************************************)
AllEvidence(evidence) ==
    UNION {{<<a, e>> : e \in evidence[a]} : a \in AllergenType}

\* Mean confidence contribution over every evidence item of the dish,
\* in hundredths (rounded down); 0 when the dish has no evidence at all.
RECURSIVE ContributionSum(_)
ContributionSum(S) ==
    IF S = {} THEN 0
    ELSE LET x == CHOOSE y \in S : TRUE
         IN  x[2].confidence_contribution + ContributionSum(S \ {x})

average_evidence_confidence(evidence) ==
    LET all == AllEvidence(evidence)
    IN  IF all = {} THEN 0
        ELSE ContributionSum(all) \div Cardinality(all)

W_OCR == 30

W_EVIDENCE == 40

W_CLARITY == 20

W_AMBIGUITY == 10

\* Variant that adds the OCR confidence unweighted.
UnweightedOcrConfidence(evidence, item, ocr_confidence) ==
    100 * ocr_confidence
      + W_EVIDENCE * average_evidence_confidence(evidence)
      + W_CLARITY * item.clarity
      + W_AMBIGUITY * (100 - item.ambiguity)

\* The weighted sum of the guide, in ten-thousandths.
_calculate_confidence(evidence, item, ocr_confidence) ==
    W_OCR * ocr_confidence
      + W_EVIDENCE * average_evidence_confidence(evidence)
      + W_CLARITY * item.clarity
      + W_AMBIGUITY * (100 - item.ambiguity)

(***************************************************************************)
(* Warnings of one dish analysis                                           *)
(***************************************************************************)
\* Variant that never warns.
NoDishWarnings(item) == {}

\* A dish without listed ingredients is flagged for missing ingredient
\* information; an unclear description without allergen notes is flagged for
\* resting on dish type and cuisine.
DishWarnings(item) ==
    (IF item.ingredients_mentioned = {}
     THEN {"Missing ingredient information"}
     ELSE {})
    \cup (IF item.declared = {} /\ item.clarity < 100
          THEN {"Limited ingredient information",
                "No explicit allergen declarations found"}
          ELSE {})

(***************************************************************************)
(* Dietary classification of one dish                                      *)
(***************************************************************************)
DIET_SAFE_BELOW == 10

\* The diets a dish is likely safe for and those it is not safe for.
_classify_safety(allergen_probs) ==
    [safe_for |->
        (IF allergen_probs["DAIRY"] < DIET_SAFE_BELOW
            /\ allergen_probs["EGGS"] < DIET_SAFE_BELOW
         THEN {"vegan"} ELSE {})
        \cup (IF allergen_probs["GLUTEN"] < DIET_SAFE_BELOW
              THEN {"gluten-free"} ELSE {})
        \cup (IF allergen_probs["DAIRY"] < DIET_SAFE_BELOW
              THEN {"dairy-free"} ELSE {})
        \cup (IF allergen_probs["PEANUTS"] < DIET_SAFE_BELOW
                 /\ allergen_probs["TREE_NUTS"] < DIET_SAFE_BELOW
              THEN {"nut-free"} ELSE {}),
     unsafe_for |->
        (IF allergen_probs["DAIRY"] < DIET_SAFE_BELOW
            /\ allergen_probs["EGGS"] < DIET_SAFE_BELOW
         THEN {} ELSE {"vegan"})
        \cup (IF allergen_probs["GLUTEN"] < DIET_SAFE_BELOW
              THEN {} ELSE {"gluten-free"})]

(***************************************************************************)
(* Complete analysis of one dish                                           *)
(***************************************************************************)
\* Variant that reports only the allergens it found evidence for.
AnalyzeDishEvidencedOnly(item, cuisine, ocr_confidence) ==
    LET evidence == [a \in AllergenType |-> _generate_evidence(a, item, cuisine)]
        conf == _calculate_confidence(evidence, item, ocr_confidence)
    IN  [dish_name |-> item.name,
         allergen_probabilities |->
             [a \in {b \in AllergenType : evidence[b] # {}} |->
                 _calculate_allergen_probability(evidence[a],
                                                 CuisinePrior(cuisine, a))],
         evidence |-> evidence,
         conf10000 |-> conf,
         confidence |-> conf \div 100,
         warnings |-> DishWarnings(item),
         safe_for |-> {},
         unsafe_for |-> {}]

_analyze_dish(item, cuisine, ocr_confidence) ==
    LET evidence == [a \in AllergenType |-> _generate_evidence(a, item, cuisine)]
        conf == _calculate_confidence(evidence, item, ocr_confidence)
        probs == [a \in AllergenType |->
                     _calculate_allergen_probability(evidence[a],
                                                     CuisinePrior(cuisine, a))]
        diets == _classify_safety(probs)
    IN  [dish_name |-> item.name,
         allergen_probabilities |-> probs,
         evidence |-> evidence,
         conf10000 |-> conf,
         confidence |-> conf \div 100,
         warnings |-> DishWarnings(item),
         safe_for |-> diets.safe_for,
         unsafe_for |-> diets.unsafe_for]

(***************************************************************************)
(* Venue aggregation                                                       *)
(***************************************************************************)
PRESENT_ABOVE == 50

HIGH_PREVALENCE == 70

\* Variant that also counts a probability of exactly 0.5.
RECURSIVE DishesAtOrAbove(_, _, _)
DishesAtOrAbove(dish_profiles, a, n) ==
    IF n = 0 THEN 0
    ELSE DishesAtOrAbove(dish_profiles, a, n - 1)
           + (IF dish_profiles[n].allergen_probabilities[a] >= PRESENT_ABOVE
              THEN 1 ELSE 0)

\* Number of dishes among the first n whose probability for a is above 0.5.
RECURSIVE DishesWithAllergen(_, _, _)
DishesWithAllergen(dish_profiles, a, n) ==
    IF n = 0 THEN 0
    ELSE DishesWithAllergen(dish_profiles, a, n - 1)
           + (IF dish_profiles[n].allergen_probabilities[a] > PRESENT_ABOVE
              THEN 1 ELSE 0)

RECURSIVE ProbabilitySum(_, _, _)
ProbabilitySum(dish_profiles, a, n) ==
    IF n = 0 THEN 0
    ELSE ProbabilitySum(dish_profiles, a, n - 1)
           + dish_profiles[n].allergen_probabilities[a]

RECURSIVE LoadOver(_, _)
LoadOver(profile, A) ==
    IF A = {} THEN 0
    ELSE LET a == CHOOSE x \in A : TRUE
         IN  profile.allergen_probabilities[a] + LoadOver(profile, A \ {a})

\* Total allergen load of a dish: the sum of its probabilities.
AllergenLoad(profile) == LoadOver(profile, AllergenType)

\* The summary of an empty dish set: no statistics, one warning.
EmptyVenueSummary ==
    [total_dishes |-> 0,
     allergen_prevalence |-> [a \in AllergenType |-> 0],
     allergen_stats |->
         [a \in AllergenType |->
             [dishes_with_allergen |-> 0, total_dishes |-> 0,
              percentage |-> 0, average_probability |-> 0]],
     safest_dishes |-> {},
     highest_risk_dishes |-> {},
     general_warnings |-> {<<"no menu items available for analysis", "-">>}]

_aggregate_venue_summary(dish_profiles) ==
    LET n == Len(dish_profiles)
        count(a) == DishesWithAllergen(dish_profiles, a, n)
        pct(a) == (100 * count(a)) \div n
        loads == {AllergenLoad(dish_profiles[i]) : i \in 1..n}
    IN  IF n = 0 THEN EmptyVenueSummary
        ELSE
        [total_dishes |-> n,
         allergen_prevalence |-> [a \in AllergenType |-> pct(a)],
         allergen_stats |->
             [a \in AllergenType |->
                 [dishes_with_allergen |-> count(a), total_dishes |-> n,
                  percentage |-> pct(a),
                  average_probability |->
                      ProbabilitySum(dish_profiles, a, n) \div n]],
         safest_dishes |->
             {i \in 1..n : \A l \in loads : AllergenLoad(dish_profiles[i]) <= l},
         highest_risk_dishes |->
             {i \in 1..n : \A l \in loads : AllergenLoad(dish_profiles[i]) >= l},
         general_warnings |->
             {<<"High prevalence", a>> :
                 a \in {b \in AllergenType : pct(b) >= HIGH_PREVALENCE}}
               \cup {<<"Cross-contamination possible in shared kitchen", "-">>}]

(***************************************************************************)
(* Safety gate: validation issues                                          *)
(***************************************************************************)
Issue(sev, cat, rule, dish, a) ==
    [severity |-> sev, category |-> cat, rule |-> rule,
     dish |-> dish, allergen |-> a]

OCR_BLOCK_BELOW == 50

OCR_WARN_BELOW == 70

CLAIM_NEEDS_EVIDENCE_ABOVE == 50

HIGH_CLAIM_ABOVE == 80

HIGH_CLAIM_MIN_CONFIDENCE == 60

ALLERGEN_CONFIDENCE_WARN_BELOW == 70

CONF_UNACCEPTABLE_BELOW == 30

CONF_POOR_BELOW == 50

CONF_FAIR_BELOW == 70

RATE_LIMIT_MAX == 5

\* Variant that uses the threshold of unacceptable confidence for OCR.
OcrBelowUnacceptable(ocr_confidence) == ocr_confidence < CONF_UNACCEPTABLE_BELOW

\* OCR confidence so low that no derived allergen claim can be trusted.
OcrTooLow(ocr_confidence) == ocr_confidence < OCR_BLOCK_BELOW

\* A confidence score too unreliable to show.
Unacceptable(confidence) == confidence < CONF_UNACCEPTABLE_BELOW

\* Mean dish confidence of the venue, 0 without dishes.
RECURSIVE ConfidenceSum(_, _)
ConfidenceSum(by_dish, n) ==
    IF n = 0 THEN 0 ELSE ConfidenceSum(by_dish, n - 1) + by_dish[n].confidence

overall_confidence(by_dish) ==
    IF Len(by_dish) = 0 THEN 0
    ELSE ConfidenceSum(by_dish, Len(by_dish)) \div Len(by_dish)

PriorsOnly(profile) ==
    /\ \E a \in AllergenType : profile.evidence[a] # {}
    /\ \A a \in AllergenType : \A e \in profile.evidence[a] :
           e.evidence_type = "CUISINE_PRIOR"

HasAllergenNotes(by_dish) ==
    \E i \in 1..Len(by_dish) : \E a \in AllergenType :
        \E e \in by_dish[i].evidence[a] : e.evidence_type = "ALLERGEN_NOTE"

\* Variant that treats a claim resting on the cuisine alone as a claim
\* without evidence.
SafetyBlockingPriorClaims(by_dish, ocr_confidence) ==
    LET n == Len(by_dish)
    IN  {Issue("CRITICAL", "ALLERGEN_SAFETY", "claim_without_evidence", c[1], c[2]) :
            c \in {d \in (1..n) \X AllergenType :
                     /\ by_dish[d[1]].allergen_probabilities[d[2]]
                            > CLAIM_NEEDS_EVIDENCE_ABOVE
                     /\ \A e \in by_dish[d[1]].evidence[d[2]] :
                            e.evidence_type = "CUISINE_PRIOR"}}
        \cup (IF OcrTooLow(ocr_confidence)
              THEN {Issue("CRITICAL", "ALLERGEN_SAFETY", "ocr_too_low", 0, "-")}
              ELSE {})
        \cup
        {Issue("CRITICAL", "ALLERGEN_SAFETY", "high_claim_low_confidence", c[1], c[2]) :
            c \in {d \in (1..n) \X AllergenType :
                     /\ by_dish[d[1]].allergen_probabilities[d[2]] > HIGH_CLAIM_ABOVE
                     /\ by_dish[d[1]].confidence < HIGH_CLAIM_MIN_CONFIDENCE}}
        \cup (IF n > 0 /\ overall_confidence(by_dish) < ALLERGEN_CONFIDENCE_WARN_BELOW
              THEN {Issue("HIGH", "ALLERGEN_SAFETY", "low_allergen_confidence", 0, "-")}
              ELSE {})
        \cup {Issue("HIGH", "ALLERGEN_SAFETY", "cuisine_priors_only", i, "-") :
                 i \in {j \in 1..n : PriorsOnly(by_dish[j])}}
        \cup (IF n = 0
              THEN {Issue("HIGH", "ALLERGEN_SAFETY", "no_menu_found", 0, "-")}
              ELSE {})
        \cup (IF ocr_confidence >= OCR_BLOCK_BELOW /\ ocr_confidence < OCR_WARN_BELOW
              THEN {Issue("HIGH", "ALLERGEN_SAFETY", "ocr_issues", 0, "-")}
              ELSE {})
        \cup (IF n > 0 /\ ~HasAllergenNotes(by_dish)
              THEN {Issue("INFO", "ALLERGEN_SAFETY", "missing_allergen_notes", 0, "-")}
              ELSE {})

_validate_allergen_safety(by_dish, ocr_confidence) ==
    LET n == Len(by_dish)
    IN  {Issue("CRITICAL", "ALLERGEN_SAFETY", "claim_without_evidence", c[1], c[2]) :
            c \in {d \in (1..n) \X AllergenType :
                     /\ by_dish[d[1]].allergen_probabilities[d[2]]
                            > CLAIM_NEEDS_EVIDENCE_ABOVE
                     /\ by_dish[d[1]].evidence[d[2]] = {}}}
        \cup (IF OcrTooLow(ocr_confidence)
              THEN {Issue("CRITICAL", "ALLERGEN_SAFETY", "ocr_too_low", 0, "-")}
              ELSE {})
        \cup
        {Issue("CRITICAL", "ALLERGEN_SAFETY", "high_claim_low_confidence", c[1], c[2]) :
            c \in {d \in (1..n) \X AllergenType :
                     /\ by_dish[d[1]].allergen_probabilities[d[2]] > HIGH_CLAIM_ABOVE
                     /\ by_dish[d[1]].confidence < HIGH_CLAIM_MIN_CONFIDENCE}}
        \cup (IF n > 0 /\ overall_confidence(by_dish) < ALLERGEN_CONFIDENCE_WARN_BELOW
              THEN {Issue("HIGH", "ALLERGEN_SAFETY", "low_allergen_confidence", 0, "-")}
              ELSE {})
        \cup {Issue("HIGH", "ALLERGEN_SAFETY", "cuisine_priors_only", i, "-") :
                 i \in {j \in 1..n : PriorsOnly(by_dish[j])}}
        \cup (IF n = 0
              THEN {Issue("HIGH", "ALLERGEN_SAFETY", "no_menu_found", 0, "-")}
              ELSE {})
        \cup (IF ocr_confidence >= OCR_BLOCK_BELOW /\ ocr_confidence < OCR_WARN_BELOW
              THEN {Issue("HIGH", "ALLERGEN_SAFETY", "ocr_issues", 0, "-")}
              ELSE {})
        \cup (IF n > 0 /\ ~HasAllergenNotes(by_dish)
              THEN {Issue("INFO", "ALLERGEN_SAFETY", "missing_allergen_notes", 0, "-")}
              ELSE {})

\* Variant that checks the rate limit and blocked domains only.
ScrapingWithoutRobots(scraping_metadata) ==
    (IF scraping_metadata.rate_limit_hits > RATE_LIMIT_MAX
     THEN {Issue("CRITICAL", "SCRAPING_COMPLIANCE", "rate_limit_abuse", 0, "-")}
     ELSE {})
    \cup (IF scraping_metadata.blocked_domains > 0
          THEN {Issue("CRITICAL", "SCRAPING_COMPLIANCE", "blocked_domain_accessed", 0, "-")}
          ELSE {})

_validate_scraping_compliance(scraping_metadata) ==
    (IF scraping_metadata.robots_txt_violations > 0
     THEN {Issue("CRITICAL", "SCRAPING_COMPLIANCE", "robots_txt_violation", 0, "-")}
     ELSE {})
    \cup (IF scraping_metadata.rate_limit_hits > RATE_LIMIT_MAX
          THEN {Issue("CRITICAL", "SCRAPING_COMPLIANCE", "rate_limit_abuse", 0, "-")}
          ELSE {})
    \cup (IF scraping_metadata.blocked_domains > 0
          THEN {Issue("CRITICAL", "SCRAPING_COMPLIANCE", "blocked_domain_accessed", 0, "-")}
          ELSE {})

\* Variant that blocks on poor confidence as well.
ConfidenceIssueBlockingPoor(confidence, rule, dish) ==
    IF confidence < CONF_POOR_BELOW
    THEN {Issue("CRITICAL", "CONFIDENCE", rule, dish, "-")}
    ELSE IF confidence < CONF_FAIR_BELOW
    THEN {Issue("MEDIUM", "CONFIDENCE", rule, dish, "-")}
    ELSE {}

\* The issue, if any, that one confidence score raises.
ConfidenceIssue(confidence, rule, dish) ==
    IF Unacceptable(confidence)
    THEN {Issue("CRITICAL", "CONFIDENCE", rule, dish, "-")}
    ELSE IF confidence < CONF_POOR_BELOW
    THEN {Issue("HIGH", "CONFIDENCE", rule, dish, "-")}
    ELSE IF confidence < CONF_FAIR_BELOW
    THEN {Issue("MEDIUM", "CONFIDENCE", rule, dish, "-")}
    ELSE {}

_validate_confidence_levels(by_dish, ocr_confidence) ==
    LET n == Len(by_dish)
    IN  (IF n > 0
         THEN ConfidenceIssue(overall_confidence(by_dish), "overall_confidence", 0)
         ELSE {})
        \cup UNION {ConfidenceIssue(by_dish[i].confidence, "dish_confidence", i) :
                       i \in 1..n}
        \cup ConfidenceIssue(ocr_confidence, "ocr_confidence", 0)

_validate_completeness(by_dish) ==
    IF Len(by_dish) = 0
    THEN {Issue("MEDIUM", "COMPLETENESS", "missing_menu", 0, "-")}
    ELSE {}

AllIssues(by_dish, ocr_confidence, scraping_metadata) ==
    _validate_allergen_safety(by_dish, ocr_confidence)
      \cup _validate_scraping_compliance(scraping_metadata)
      \cup _validate_confidence_levels(by_dish, ocr_confidence)
      \cup _validate_completeness(by_dish)

(***************************************************************************)
(* Safety gate: blocking, status and scores                                *)
(***************************************************************************)
EnrichmentUnit == [kind |-> "enrichment_data", dish |-> 0, allergen |-> "-"]

ClaimUnit(i, a) == [kind |-> "allergen_claim", dish |-> i, allergen |-> a]

ClaimUnits(n) == {ClaimUnit(c[1], c[2]) : c \in (1..n) \X AllergenType}

\* Every piece of data of a request with n dishes.
DataUnits(n) == {EnrichmentUnit} \cup ClaimUnits(n)

\* Variant that ignores the rate limit.
ScrapingViolatedRobotsOnly(scraping_metadata) ==
    \/ scraping_metadata.robots_txt_violations > 0
    \/ scraping_metadata.blocked_domains > 0

ScrapingViolated(scraping_metadata) ==
    \/ scraping_metadata.robots_txt_violations > 0
    \/ scraping_metadata.rate_limit_hits > RATE_LIMIT_MAX
    \/ scraping_metadata.blocked_domains > 0

\* Variant that removes every dish below the "poor" threshold.
DishBlockedBelowPoor(profile) == profile.confidence < CONF_POOR_BELOW

\* A dish whose confidence is too low to keep its claims.
DishBlocked(profile) == profile.confidence < CONF_UNACCEPTABLE_BELOW

\* The data removed from the payload: <<passed_data, blocked_data>>.
_block_unsafe_data(by_dish, ocr_confidence, scraping_metadata, issues) ==
    LET n == Len(by_dish)
        blocked ==
            {u \in DataUnits(n) :
                \/ ScrapingViolated(scraping_metadata)
                \/ /\ u.kind = "allergen_claim"
                   /\ \/ OcrTooLow(ocr_confidence)
                      \/ overall_confidence(by_dish) < CONF_UNACCEPTABLE_BELOW
                      \/ DishBlocked(by_dish[u.dish])
                      \/ \E i \in issues :
                            /\ i.severity = "CRITICAL"
                            /\ i.dish = u.dish
                            /\ i.allergen = u.allergen}
    IN  <<DataUnits(n) \ blocked, blocked>>

CountSeverity(issues, sev) == Cardinality({i \in issues : i.severity = sev})

CountAllergen(issues, sev) ==
    Cardinality({i \in issues :
                    i.severity = sev /\ i.category = "ALLERGEN_SAFETY"})

\* Variant that blocks only on more than one CRITICAL issue.
StatusOnMultipleCritical(issues) ==
    IF CountSeverity(issues, "CRITICAL") > 1 THEN "BLOCKED"
    ELSE IF \E i \in issues : i.severity \in {"HIGH", "MEDIUM"}
    THEN "PASS_WITH_WARNINGS"
    ELSE "PASS"

determine_status(issues) ==
    IF \E i \in issues : i.severity = "CRITICAL" THEN "BLOCKED"
    ELSE IF \E i \in issues : i.severity \in {"HIGH", "MEDIUM"}
    THEN "PASS_WITH_WARNINGS"
    ELSE "PASS"

\* Variant without the lower clamp.
DataQualityUnclamped(issues) ==
    100 - 30 * CountSeverity(issues, "CRITICAL")
        - 10 * CountSeverity(issues, "HIGH")
        - 5 * CountSeverity(issues, "MEDIUM")
        - 2 * CountSeverity(issues, "LOW")

data_quality_score(issues) ==
    Max2(0, 100 - 30 * CountSeverity(issues, "CRITICAL")
                - 10 * CountSeverity(issues, "HIGH")
                - 5 * CountSeverity(issues, "MEDIUM")
                - 2 * CountSeverity(issues, "LOW"))

allergen_safety_score(issues, by_dish) ==
    IF Len(by_dish) = 0 THEN 0
    ELSE Max2(0, overall_confidence(by_dish)
                   - 40 * CountAllergen(issues, "CRITICAL")
                   - 15 * CountAllergen(issues, "HIGH")
                   - 5 * CountAllergen(issues, "MEDIUM"))

\* Result for a request whose required structure is missing: validation
\* does not run, the whole payload is withheld.
MalformedResult ==
    [status |-> "BLOCKED",
     issues |-> {Issue("CRITICAL", "OUTPUT_FORMAT", "malformed_input", 0, "-")},
     data_quality_score |-> 0,
     allergen_safety_score |-> 0,
     passed_data |-> {},
     blocked_data |-> DataUnits(0)]

validate(by_dish, ocr_confidence, scraping_metadata) ==
    LET issues == AllIssues(by_dish, ocr_confidence, scraping_metadata)
        split == _block_unsafe_data(by_dish, ocr_confidence,
                                    scraping_metadata, issues)
    IN  [status |-> determine_status(issues),
         issues |-> issues,
         data_quality_score |-> data_quality_score(issues),
         allergen_safety_score |-> allergen_safety_score(issues, by_dish),
         passed_data |-> split[1],
         blocked_data |-> split[2]]

(***************************************************************************)
(* Web client: states after construction                                   *)
(***************************************************************************)
\* An absent restaurant, location or index (null in the source); restaurant
\* and location identifiers are positive.
Null == 0

\* Home page (page.tsx), card deck (RestaurantCardDeck) and map (Map.tsx)
\* after the first render.  closeTimer is the pending timeout of the deck's
\* close handler, fetching the number of dice-roll requests in flight;
\* lastEvent and deckWasActive record the last handler that ran and whether
\* the deck was active when it ran.
HomeInitial ==
    [userLocation |-> FALSE,
     restaurantDeck |-> <<>>,
     selectedRestaurant |-> Null,
     currentIndex |-> 0,
     isTransitioning |-> FALSE,
     isClosing |-> FALSE,
     closeTimer |-> FALSE,
     restaurants |-> {},
     activeRestaurantId |-> Null,
     fetching |-> 0,
     lastEvent |-> "none",
     deckWasActive |-> FALSE]

\* No request has reached an API route.
NoRequest == [phase |-> "none"]

\* Streaming test page after the first render, with the geolocation request
\* of its mount effect in flight (locating); server is the position of the
\* backend in its event sequence, eventLog the length of the log; metadata
\* is empty (null) or holds the number of restaurants to be researched;
\* eventSource is the EventSource object held by the page: the number of the
\* connection (none yet) and whether it is open.
ClientInitial ==
    [locating |-> TRUE,
     location |-> FALSE,
     locationError |-> FALSE,
     streamStatus |-> "idle",
     metadata |-> <<>>,
     researchedRestaurants |-> 0,
     nonResearchedRestaurants |-> FALSE,
     error |-> FALSE,
     eventSource |-> [id |-> 0, open |-> FALSE],
     reconnectTimer |-> FALSE,
     server |-> "none",
     eventLog |-> 0]

\* Location service singleton after construction; now is the clock, pending
\* the number of geolocation queries in flight, lastFix and lastFixAt the
\* last successful fix and its time, lastCall the outcome of the last call.
NoCall == [at |-> 0, kind |-> "none", value |-> Null, fix |-> Null, fixAt |-> 0]

ServiceInitial ==
    [cachedLocation |-> Null,
     cacheExpiry |-> 0,
     now |-> 0,
     pending |-> 0,
     lastFix |-> Null,
     lastFixAt |-> 0,
     lastCall |-> NoCall]

FrontendIdle ==
    /\ home = HomeInitial
    /\ route = NoRequest
    /\ client = ClientInitial
    /\ service = ServiceInitial

(***************************************************************************)
(* Requests                                                                *)
(***************************************************************************)
Cuisines == {"none", "italian", "burger"}

OcrConfidences == {20, 40, 50, 65, 91}

Menus == UNION {[1..n -> MenuCatalog] : n \in 0..MaxDishes}

Requests ==
    [restaurant_id_present : BOOLEAN,
     menu_items_null : BOOLEAN,
     menu_items : Menus,
     cuisine : Cuisines,
     ocr_confidence : OcrConfidences,
     scraping_metadata :
         [robots_txt_violations : {0, 1},
          rate_limit_hits : {5, 6},
          blocked_domains : {0, 1}]]

\* Variant that forgets the null menu.
MalformedIdOnly(req) == ~req.restaurant_id_present

Malformed(req) == ~req.restaurant_id_present \/ req.menu_items_null

NoProfile == [dish_name |-> "-"]

NoSummary == [total_dishes |-> -1]

NoResult == [status |-> "NONE"]

(***************************************************************************)
(* The pipeline for one request                                            *)
(***************************************************************************)
Init ==
    /\ input \in {r \in Requests : r.menu_items_null => r.menu_items = <<>>}
    /\ pc = "received"
    /\ analyzed = {}
    /\ profiles = <<>>
    /\ summary = NoSummary
    /\ result = NoResult
    /\ FrontendIdle

\* Input validation at the entry point: a malformed request is answered at
\* once, a well-formed one goes on to per-dish analysis.
RejectMalformed ==
    /\ pc = "received"
    /\ Malformed(input)
    /\ result' = MalformedResult
    /\ pc' = "done"
    /\ UNCHANGED <<input, analyzed, profiles, summary>>
    /\ UNCHANGED frontend

Accept ==
    /\ pc = "received"
    /\ ~Malformed(input)
    /\ profiles' = [i \in 1..Len(input.menu_items) |-> NoProfile]
    /\ pc' = "analyzing"
    /\ UNCHANGED <<input, analyzed, summary, result>>
    /\ UNCHANGED frontend

\* Variant in which workers share one result list and each stores its
\* profile in the next free slot, in the order of completion.
AnalyzeDishInArrivalSlot(i) ==
    /\ pc = "analyzing"
    /\ i \notin analyzed
    /\ profiles' = [profiles EXCEPT
           ![Cardinality(analyzed) + 1] =
               _analyze_dish(input.menu_items[i], input.cuisine,
                             input.ocr_confidence)]
    /\ analyzed' = analyzed \cup {i}
    /\ UNCHANGED <<input, pc, summary, result>>
    /\ UNCHANGED frontend

\* One worker analyzes one dish not yet analyzed.
AnalyzeDish(i) ==
    /\ pc = "analyzing"
    /\ i \notin analyzed
    /\ profiles' = [profiles EXCEPT
           ![i] = _analyze_dish(input.menu_items[i], input.cuisine,
                                input.ocr_confidence)]
    /\ analyzed' = analyzed \cup {i}
    /\ UNCHANGED <<input, pc, summary, result>>
    /\ UNCHANGED frontend

\* The semantic analysis service is unavailable when a dish is to be
\* analyzed: the analysis fails as a whole.
AnalysisFails(i) ==
    /\ pc = "analyzing"
    /\ i \notin analyzed
    /\ pc' = "error"
    /\ UNCHANGED <<input, analyzed, profiles, summary, result>>
    /\ UNCHANGED frontend

\* Variant that aggregates whatever profiles exist so far.
AggregatePartial ==
    /\ pc = "analyzing"
    /\ summary' = _aggregate_venue_summary(
                      SelectSeq(profiles, LAMBDA p : p # NoProfile))
    /\ pc' = "aggregated"
    /\ UNCHANGED <<input, analyzed, profiles, result>>
    /\ UNCHANGED frontend

\* Barrier: aggregation starts once every dish has a profile.
Aggregate ==
    /\ pc = "analyzing"
    /\ analyzed = 1..Len(input.menu_items)
    /\ summary' = _aggregate_venue_summary(profiles)
    /\ pc' = "aggregated"
    /\ UNCHANGED <<input, analyzed, profiles, result>>
    /\ UNCHANGED frontend

Validate ==
    /\ pc = "aggregated"
    /\ result' = validate(profiles, input.ocr_confidence, input.scraping_metadata)
    /\ pc' = "done"
    /\ UNCHANGED <<input, analyzed, profiles, summary>>
    /\ UNCHANGED frontend

Next ==
    \/ RejectMalformed
    \/ Accept
    \/ \E i \in 1..Len(input.menu_items) : AnalyzeDish(i)
    \/ \E i \in 1..Len(input.menu_items) : AnalysisFails(i)
    \/ Aggregate
    \/ Validate

Spec == Init /\ [][Next]_vars

(***************************************************************************)
(* Properties                                                              *)
(***************************************************************************)
InputMalformed == ~input.restaurant_id_present \/ input.menu_items_null

Item(i) == input.menu_items[i]

HasSeverity(sev) == \E i \in result.issues : i.severity = sev

C2_RobotsBlocked ==
    (pc = "done" /\ input.scraping_metadata.robots_txt_violations > 0)
        => result.status = "BLOCKED"

\* A well-formed request whose only CRITICAL issue is the robots.txt one.
C2_Witness ==
    /\ pc = "done"
    /\ ~InputMalformed
    /\ input.scraping_metadata.robots_txt_violations > 0
    /\ \A i \in result.issues :
          i.severity = "CRITICAL" => i.rule = "robots_txt_violation"
    /\ result.status = "BLOCKED"

OcrBlockedOutcome ==
    /\ result.status = "BLOCKED"
    /\ \E i \in result.issues :
          /\ i.severity = "CRITICAL"
          /\ i.category = "ALLERGEN_SAFETY"
          /\ i.rule = "ocr_too_low"
    /\ ClaimUnits(Len(profiles)) \subseteq result.blocked_data
    /\ \A u \in result.passed_data : u.kind # "allergen_claim"

\* C4 as stated: whenever the OCR confidence is below 0.5 the result is
\* BLOCKED with a CRITICAL ALLERGEN_SAFETY issue about OCR quality and the
\* whole allergen section blocked.
C4_Original ==
    (pc = "done" /\ input.ocr_confidence < 50) => OcrBlockedOutcome

\* C4 amended: for a well-formed request, an OCR confidence below 0.5 gives
\* BLOCKED with a CRITICAL ALLERGEN_SAFETY issue about OCR quality and the
\* whole allergen section blocked.
C4_Amended ==
    (pc = "done" /\ ~InputMalformed /\ input.ocr_confidence < 50)
        => OcrBlockedOutcome

\* A compliant, well-formed request with dishes and an OCR confidence of 0.4.
C4_Witness ==
    /\ pc = "done"
    /\ ~InputMalformed
    /\ input.ocr_confidence = 40
    /\ Len(profiles) > 0
    /\ ~ScrapingViolated(input.scraping_metadata)
    /\ OcrBlockedOutcome

\* C5 as stated: the confidence of a dish is at most the OCR confidence.
C5_Original ==
    \A i \in analyzed : profiles[i].conf10000 <= 100 * input.ocr_confidence

\* C5 amended: the confidence of a dish is at most 0.3 times the OCR
\* confidence plus 0.7.
C5_Amended ==
    \A i \in analyzed :
        profiles[i].conf10000 <= 30 * input.ocr_confidence + 7000

\* A dish whose confidence exceeds the OCR confidence it was analyzed with.
C5_Witness ==
    \E i \in analyzed :
        /\ input.ocr_confidence = 40
        /\ profiles[i].conf10000 > 100 * input.ocr_confidence

\* C6: an allergen named in an explicit declaration of the dish has a
\* probability of at least 0.9.
C6_DeclaredAtLeast90 ==
    \A i \in analyzed :
        \A d \in Item(i).declared :
            profiles[i].allergen_probabilities[d[1]] >= 90

C9_MalformedFailsFast ==
    (pc = "done" /\ InputMalformed) =>
        /\ result.status = "BLOCKED"
        /\ Cardinality(result.issues) = 1
        /\ \A i \in result.issues :
              i.severity = "CRITICAL" /\ i.category = "OUTPUT_FORMAT"
        /\ analyzed = {}
        /\ profiles = <<>>
        /\ summary = NoSummary

\* A malformed request that other rules would have flagged as well.
C9_Witness ==
    /\ pc = "done"
    /\ input.menu_items_null
    /\ input.restaurant_id_present
    /\ input.ocr_confidence = 40
    /\ input.scraping_metadata.robots_txt_violations > 0
    /\ Cardinality(result.issues) = 1

\* An issue that explains why a piece of data was blocked.
Explains(i, u) ==
    /\ i.severity = "CRITICAL"
    /\ \/ i.category \in {"SCRAPING_COMPLIANCE", "OUTPUT_FORMAT"}
       \/ /\ u.kind = "allergen_claim"
          /\ i.category \in {"ALLERGEN_SAFETY", "CONFIDENCE"}
          /\ \/ i.dish = 0
             \/ i.dish = u.dish /\ i.allergen \in {"-", u.allergen}

EmptyText(item) ==
    /\ item.declared = {}
    /\ item.ingredients_mentioned = {}
    /\ item.preparation_methods = {}
    /\ item.archetype = "none"

\* C11: for a menu item with no ingredients and no description, analyzed
\* without a cuisine, the probability of every allergen is the larger of its
\* default-row prior and the cross-contamination floor of 0.01, and the
\* profile carries at least one warning.
C11_EmptyItemDefaults ==
    \A i \in analyzed :
        (EmptyText(Item(i)) /\ input.cuisine = "none") =>
            /\ \A a \in AllergenType :
                  profiles[i].allergen_probabilities[a]
                      = Max2(CUISINE_PRIORS["default"][a], 1)
            /\ profiles[i].warnings # {}

\* An empty item analyzed without a cuisine: GLUTEN at the default 0.5.
C11_Witness ==
    \E i \in analyzed :
        /\ EmptyText(Item(i))
        /\ input.cuisine = "none"
        /\ profiles[i].allergen_probabilities["GLUTEN"] = 50
        /\ profiles[i].allergen_probabilities["SULFITES"] = 10
        /\ profiles[i].warnings # {}

\* C12: "Chef's Special" without a description at an italian venue has a
\* GLUTEN probability equal to the italian prior 0.85, GLUTEN evidence of
\* kind CUISINE_PRIOR only, a confidence below 0.65, and a warning.
C12_ChefsSpecialItalian ==
    \A i \in analyzed :
        (Item(i).name = "Chef's Special" /\ input.cuisine = "italian") =>
            /\ profiles[i].allergen_probabilities["GLUTEN"] = 85
            /\ profiles[i].evidence["GLUTEN"] # {}
            /\ \A e \in profiles[i].evidence["GLUTEN"] :
                  e.evidence_type = "CUISINE_PRIOR"
            /\ profiles[i].conf10000 < 6500
            /\ profiles[i].warnings # {}

\* "Chef's Special" at an italian venue, read with the best OCR confidence.
C12_Witness ==
    \E i \in analyzed :
        /\ Item(i).name = "Chef's Special"
        /\ input.cuisine = "italian"
        /\ input.ocr_confidence = 91
        /\ profiles[i].allergen_probabilities["GLUTEN"] = 85
        /\ profiles[i].warnings # {}

AllAnalyzed ==
    /\ Len(profiles) = Len(input.menu_items)
    /\ analyzed = 1..Len(input.menu_items)
    /\ \A i \in 1..Len(profiles) : profiles[i] # NoProfile

FullProfile(profile) ==
    /\ DOMAIN profile =
           {"dish_name", "allergen_probabilities", "evidence", "conf10000",
            "confidence", "warnings", "safe_for", "unsafe_for"}
    /\ DOMAIN profile.allergen_probabilities = AllergenType
    /\ DOMAIN profile.evidence = AllergenType
    /\ profile.confidence \in 0..100

ProfilesAndSummaryComplete ==
    /\ \A i \in analyzed :
          /\ FullProfile(profiles[i])
          /\ EmptyText(Item(i)) => profiles[i].warnings # {}
    /\ (pc \in {"aggregated", "done"} /\ Len(profiles) > 0) =>
          /\ summary # NoSummary
          /\ summary.total_dishes = Len(profiles)

C15_ScoresInRange ==
    pc = "done" =>
        /\ result.data_quality_score \in 0..100
        /\ result.allergen_safety_score \in 0..100

\* Penalties that exceed the base score: both scores are clamped to 0.
C15_Witness ==
    /\ pc = "done"
    /\ ~InputMalformed
    /\ Len(profiles) > 0
    /\ 30 * CountSeverity(result.issues, "CRITICAL")
          + 10 * CountSeverity(result.issues, "HIGH") > 100
    /\ 40 * CountAllergen(result.issues, "CRITICAL")
          > overall_confidence(profiles)
    /\ result.data_quality_score = 0
    /\ result.allergen_safety_score = 0

\* A claim above 0.5 whose evidence, if any, is of kind CUISINE_PRIOR.
PriorOnlyClaim(i, a) ==
    /\ profiles[i].allergen_probabilities[a] > 50
    /\ \A e \in profiles[i].evidence[a] : e.evidence_type = "CUISINE_PRIOR"

CriticalFor(i, a) ==
    \E x \in result.issues :
        x.severity = "CRITICAL" /\ x.dish = i /\ x.allergen = a

Clamp(p) == Min2(Max2(p, 1), 98)

Weights(i, a) == {e.confidence_contribution : e \in profiles[i].evidence[a]}

CuisineEvidence(i, a) ==
    {e \in profiles[i].evidence[a] : e.evidence_type = "CUISINE_PRIOR"}

DishConfidenceIssues(i) ==
    {x \in result.issues : x.category = "CONFIDENCE" /\ x.rule = "dish_confidence"
                              /\ x.dish = i}

DishClaimsBlocked(i) ==
    \A a \in AllergenType : ClaimUnit(i, a) \in result.blocked_data

DietLabels == {"vegan", "vegetarian", "gluten-free", "dairy-free", "nut-free"}

DietTriggers(label) ==
    CASE label = "vegan"       -> {"DAIRY", "EGGS", "FISH", "SHELLFISH"}
      [] label = "vegetarian"  -> {"FISH", "SHELLFISH"}
      [] label = "gluten-free" -> {"GLUTEN"}
      [] label = "dairy-free"  -> {"DAIRY"}
      [] label = "nut-free"    -> {"PEANUTS", "TREE_NUTS"}

\* C21: each dietary label is in exactly one of unsafe_for and safe_for: in
\* unsafe_for when one of its trigger allergens has a probability above 0.1,
\* in safe_for otherwise.
C21_DietLabels ==
    \A i \in analyzed : \A label \in DietLabels :
        IF \E a \in DietTriggers(label) :
               profiles[i].allergen_probabilities[a] > 10
        THEN label \in profiles[i].unsafe_for /\ label \notin profiles[i].safe_for
        ELSE label \in profiles[i].safe_for /\ label \notin profiles[i].unsafe_for

\* Reliability rank of an evidence kind, the most reliable first.
KindRank(kind) ==
    CASE kind = "ALLERGEN_NOTE"       -> 5
      [] kind = "EXPLICIT_INGREDIENT" -> 4
      [] kind = "DISH_ARCHETYPE"      -> 3
      [] kind = "COOKING_METHOD"      -> 2
      [] kind = "CUISINE_PRIOR"       -> 1

\* C22: within the evidence of a dish, an item of a more reliable kind never
\* carries a lower weight than an item of a less reliable kind.
C22_WeightOrder ==
    \A i \in analyzed : \A a, b \in AllergenType :
        \A e \in profiles[i].evidence[a] : \A f \in profiles[i].evidence[b] :
            KindRank(e.evidence_type) > KindRank(f.evidence_type) =>
                e.confidence_contribution >= f.confidence_contribution

\* The dish profiles of the request, each computed from its menu item alone.
ExpectedProfiles ==
    [i \in 1..Len(input.menu_items) |->
        _analyze_dish(input.menu_items[i], input.cuisine, input.ocr_confidence)]

MaxRestaurants == 3

MaxFetching == 1

\* No analysis request is in progress while the web client is examined.
PipelineIdle ==
    /\ input = NoRequest
    /\ pc = "idle"
    /\ analyzed = {}
    /\ profiles = <<>>
    /\ summary = NoSummary
    /\ result = NoResult

RestaurantIds == 1..MaxRestaurants

\* The lists a restaurant search can return: restaurants without repetition.
RestaurantLists ==
    {l \in UNION {[1..n -> RestaurantIds] : n \in 0..MaxRestaurants} :
        \A i, j \in 1..Len(l) : i # j => l[i] # l[j]}

\* isDeckActive as the page passes it to the map.
IsDeckActive(s) == Len(s.restaurantDeck) > 0

\* Variant of the map's selection effect that always opens the popup of the
\* selected restaurant.
MapSelectedEffectAlwaysActive(s) ==
    IF s.selectedRestaurant # Null
    THEN [s EXCEPT !.restaurants = {s.selectedRestaurant},
                   !.activeRestaurantId = s.selectedRestaurant]
    ELSE [s EXCEPT !.restaurants = {}, !.activeRestaurantId = Null]

\* Map effect on [selectedRestaurant, isMapReady, isDeckActive]: show only
\* the selected restaurant, and open its popup unless the deck is active.
MapSelectedEffect(s) ==
    IF s.selectedRestaurant # Null
    THEN [s EXCEPT !.restaurants = {s.selectedRestaurant},
                   !.activeRestaurantId =
                       IF ~IsDeckActive(s) THEN s.selectedRestaurant ELSE @]
    ELSE [s EXCEPT !.restaurants = {}, !.activeRestaurantId = Null]

\* Map effect on [restaurants, activeRestaurantId]: clear the active id if
\* the restaurant list no longer contains it.
MapActiveEffect(s) ==
    IF s.activeRestaurantId # Null /\ s.activeRestaurantId \notin s.restaurants
    THEN [s EXCEPT !.activeRestaurantId = Null]
    ELSE s

\* The map's effects after a render in which the dependencies of the
\* selection effect changed (run) or not.
MapEffects(s, run) == MapActiveEffect(IF run THEN MapSelectedEffect(s) ELSE s)

\* Deck effect on [currentIndex, restaurants]: select the current card's
\* restaurant if there is one.
DeckSelectEffect(s) ==
    IF s.currentIndex < Len(s.restaurantDeck)
    THEN [s EXCEPT !.selectedRestaurant = s.restaurantDeck[s.currentIndex + 1]]
    ELSE s

\* The deck component exists only while the deck list is non-empty; its
\* state is discarded when it is unmounted.
DeckUnmounted(s) ==
    [s EXCEPT !.currentIndex = 0, !.isTransitioning = FALSE,
              !.isClosing = FALSE]

\* React commits the state t that a handler produced from s and runs the
\* effects whose dependencies changed, to a fixed point.  replaced tells
\* that the deck list is a new array.
Commit(s, t, replaced) ==
    LET a == IF IsDeckActive(t) THEN t ELSE DeckUnmounted(t)
        b == MapEffects(a, \/ a.selectedRestaurant # s.selectedRestaurant
                           \/ IsDeckActive(a) # IsDeckActive(s))
        deckRuns == /\ IsDeckActive(a)
                    /\ \/ ~IsDeckActive(s)
                       \/ replaced
                       \/ a.currentIndex # s.currentIndex
        c == IF deckRuns THEN DeckSelectEffect(b) ELSE b
    IN  MapEffects(c, c.selectedRestaurant # b.selectedRestaurant)

\* A handler ran: remember which, and whether the deck was active.
Event(s, name) ==
    [s EXCEPT !.lastEvent = name, !.deckWasActive = IsDeckActive(s)]

\* Swipes shorter than this many pixels are ignored by the deck.
SWIPE_MIN_DISTANCE == 50

\* A touch on the map shorter than this many milliseconds is a tap.
QUICK_TAP_BELOW == 300

\* Variant of the page's close callback that empties the deck only.
OnDeckCloseDeckOnly(s) == [s EXCEPT !.restaurantDeck = <<>>]

\* The page's onDeckClose / onClose callback.
OnDeckClose(s) ==
    [s EXCEPT !.restaurantDeck = <<>>, !.selectedRestaurant = Null]

\* The page's onRestaurantDeselect callback.
OnRestaurantDeselect(s) == [s EXCEPT !.selectedRestaurant = Null]

goToPrevious(s) ==
    IF s.currentIndex > 0 /\ ~s.isTransitioning
    THEN [s EXCEPT !.isTransitioning = TRUE, !.currentIndex = @ - 1]
    ELSE s

goToNext(s) ==
    IF s.currentIndex < Len(s.restaurantDeck) - 1 /\ ~s.isTransitioning
    THEN [s EXCEPT !.isTransitioning = TRUE, !.currentIndex = @ + 1]
    ELSE s

goToIndex(s, index) ==
    IF /\ index # s.currentIndex
       /\ ~s.isTransitioning
       /\ index >= 0
       /\ index < Len(s.restaurantDeck)
    THEN [s EXCEPT !.isTransitioning = TRUE, !.currentIndex = index]
    ELSE s

\* Click on the map canvas, and the Escape key: close the popup, deselect,
\* and close the deck if it is active.
DismissAll(s) ==
    LET t == OnRestaurantDeselect([s EXCEPT !.activeRestaurantId = Null])
    IN  IF IsDeckActive(s) THEN OnDeckClose(t) ELSE t

HomeOnly == UNCHANGED <<pipeline, route, client, service>>

InitHome ==
    /\ PipelineIdle
    /\ home = HomeInitial
    /\ route = NoRequest
    /\ client = ClientInitial
    /\ service = ServiceInitial

\* The location display reports the user's location to the page.
HandleLocationChange ==
    /\ ~home.userLocation
    /\ home' = [Event(home, "location") EXCEPT !.userLocation = TRUE]
    /\ HomeOnly

\* handleDiceRoll up to its fetch.
HandleDiceRoll ==
    /\ home.userLocation
    /\ home.fetching < MaxFetching
    /\ home' = [Event(home, "dice") EXCEPT !.fetching = @ + 1]
    /\ HomeOnly

\* handleDiceRoll after its fetch: a non-empty list replaces the deck and
\* its first restaurant is selected.
DiceRollResponse(l) ==
    /\ home.fetching > 0
    /\ LET s == [Event(home, "dice_response") EXCEPT !.fetching = @ - 1]
           t == IF Len(l) > 0
                THEN [s EXCEPT !.restaurantDeck = l,
                               !.selectedRestaurant = l[1]]
                ELSE s
       IN  home' = Commit(home, t, Len(l) > 0)
    /\ HomeOnly

\* The fetch failed or the backend answered with an error status.
DiceRollFails ==
    /\ home.fetching > 0
    /\ home' = [Event(home, "dice_error") EXCEPT !.fetching = @ - 1]
    /\ HomeOnly

PreviousButton ==
    /\ IsDeckActive(home)
    /\ home' = Commit(home, goToPrevious(Event(home, "previous")), FALSE)
    /\ HomeOnly

NextButton ==
    /\ IsDeckActive(home)
    /\ home' = Commit(home, goToNext(Event(home, "next")), FALSE)
    /\ HomeOnly

DotButton(index) ==
    /\ IsDeckActive(home)
    /\ Len(home.restaurantDeck) > 1
    /\ index < Len(home.restaurantDeck)
    /\ home' = Commit(home, goToIndex(Event(home, "dot"), index), FALSE)
    /\ HomeOnly

\* handleTouchEnd of the deck: distance is touchStart - touchEnd.
Swipe(distance) ==
    /\ IsDeckActive(home)
    /\ LET s == Event(home, "swipe")
           t == IF distance > SWIPE_MIN_DISTANCE THEN goToNext(s)
                ELSE IF distance < -SWIPE_MIN_DISTANCE THEN goToPrevious(s)
                ELSE s
       IN  home' = Commit(home, t, FALSE)
    /\ HomeOnly

\* The timeout that ends a card transition.
TransitionEnd ==
    /\ home.isTransitioning
    /\ home' = [home EXCEPT !.isTransitioning = FALSE]
    /\ HomeOnly

\* handleClose of the deck: start the closing animation and its timeout.
DeckHandleClose ==
    /\ IsDeckActive(home)
    /\ home' = [Event(home, "close_button") EXCEPT !.isClosing = TRUE,
                                                   !.closeTimer = TRUE]
    /\ HomeOnly

\* The timeout of handleClose calls the page's onClose.
DeckCloseTimeout ==
    /\ home.closeTimer
    /\ LET s == [Event(home, "deck_close") EXCEPT !.closeTimer = FALSE]
       IN  home' = Commit(home, OnDeckClose(s), FALSE)
    /\ HomeOnly

\* handleMapClick with a click on the map canvas.
MapClick ==
    /\ home' = Commit(home, DismissAll(Event(home, "map_click")), FALSE)
    /\ HomeOnly

\* handleTouchEnd of the map.
MapTouchEnd(touchDuration, isDragging) ==
    /\ LET s == Event(home, "map_touch")
           isQuickTap == touchDuration < QUICK_TAP_BELOW /\ ~isDragging
           t == IF isQuickTap /\ IsDeckActive(s) THEN OnDeckClose(s) ELSE s
       IN  home' = Commit(home,
                          [t EXCEPT !.lastEvent =
                               IF isQuickTap THEN "map_tap" ELSE "map_touch"],
                          FALSE)
    /\ HomeOnly

\* onKey of the map.
KeyDown(key) ==
    /\ LET s == Event(home, key)
       IN  home' = Commit(home, IF key = "Escape" THEN DismissAll(s) ELSE s,
                          FALSE)
    /\ HomeOnly

\* onClick of a marker shown on the map.
MarkerClick(r) ==
    /\ r \in home.restaurants
    /\ LET s == Event(home, "marker_click")
           t == IF IsDeckActive(s) THEN s
                ELSE [s EXCEPT !.activeRestaurantId =
                                   IF @ = r THEN Null ELSE r]
       IN  home' = Commit(home, t, FALSE)
    /\ HomeOnly

NextHome ==
    \/ HandleLocationChange
    \/ HandleDiceRoll
    \/ \E l \in RestaurantLists : DiceRollResponse(l)
    \/ DiceRollFails
    \/ PreviousButton
    \/ NextButton
    \/ \E index \in 0..(MaxRestaurants - 1) : DotButton(index)
    \/ \E distance \in {-60, 0, 60} : Swipe(distance)
    \/ TransitionEnd
    \/ DeckHandleClose
    \/ DeckCloseTimeout
    \/ MapClick
    \/ \E touchDuration \in {100, 400}, isDragging \in BOOLEAN :
           MapTouchEnd(touchDuration, isDragging)
    \/ \E key \in {"Escape", "Enter"} : KeyDown(key)
    \/ \E r \in RestaurantIds : MarkerClick(r)

SpecHome == InitHome /\ [][NextHome]_vars

\* C24: whenever the deck has restaurants, the index of the current card is
\* a valid position of the deck list, also after the list was replaced.
C24_IndexInRange ==
    IsDeckActive(home) =>
        /\ 0 <= home.currentIndex
        /\ home.currentIndex < Len(home.restaurantDeck)

\* C26: while the card deck is active no marker popup is active on the map,
\* whatever deck navigation or marker click happened last.
C26_NoPopupWhileDeckActive ==
    IsDeckActive(home) => home.activeRestaurantId = Null

\* The deck is active on a later card, its restaurant is shown on the map
\* and its marker was just clicked.
C26_Witness ==
    /\ IsDeckActive(home)
    /\ home.currentIndex > 0
    /\ home.selectedRestaurant = home.restaurantDeck[home.currentIndex + 1]
    /\ home.restaurants = {home.selectedRestaurant}
    /\ home.lastEvent = "marker_click"
    /\ home.deckWasActive

ClosingEvents == {"deck_close", "map_click", "map_tap", "Escape"}

\* C28: after the deck's close handler has completed, and after a click or
\* quick tap on the map or the Escape key while the deck was active, the
\* deck list is empty and no restaurant is selected.
C28_CloseClearsDeckAndSelection ==
    (home.lastEvent \in ClosingEvents /\
     (home.deckWasActive \/ home.lastEvent = "deck_close")) =>
        /\ home.restaurantDeck = <<>>
        /\ home.selectedRestaurant = Null

\* A quick tap on the map has just closed an active deck.
C28_Witness ==
    /\ home.lastEvent = "map_tap"
    /\ home.deckWasActive
    /\ home.restaurantDeck = <<>>
    /\ home.selectedRestaurant = Null
    /\ home.restaurants = {}

(***************************************************************************)
(* Restaurant API routes                                                   *)
(*                                                                         *)
(* A query parameter is the text of its value, a sequence of characters,   *)
(* or absent.  A JavaScript number is a record: NaN, or a value.  The      *)
(* value of parseFloat is kept in thousandths.                             *)
(***************************************************************************)
MaxChunks == 2

NaN == [nan |-> TRUE, value |-> 0]

Number(v) == [nan |-> FALSE, value |-> v]

isNaN(x) == x.nan

\* x < n and x > n of JavaScript: false when x is NaN.
JsLess(x, n) == ~x.nan /\ x.value < n

JsGreater(x, n) == ~x.nan /\ x.value > n

DigitChars == <<"0", "1", "2", "3", "4", "5", "6", "7", "8", "9">>

Digits == {DigitChars[i] : i \in 1..10}

DigitValue(c) == (CHOOSE i \in 1..10 : DigitChars[i] = c) - 1

RECURSIVE TrimStart(_)
TrimStart(s) ==
    IF s # <<>> /\ Head(s) = " " THEN TrimStart(Tail(s)) ELSE s

RECURSIVE LeadingDigits(_)
LeadingDigits(s) ==
    IF s = <<>> \/ Head(s) \notin Digits THEN <<>>
    ELSE <<Head(s)>> \o LeadingDigits(Tail(s))

RECURSIVE DigitsValue(_, _)
DigitsValue(ds, acc) ==
    IF ds = <<>> THEN acc
    ELSE DigitsValue(Tail(ds), 10 * acc + DigitValue(Head(ds)))

\* An optional sign in front of a number.
Signed(s) ==
    IF s # <<>> /\ Head(s) \in {"-", "+"}
    THEN [sign |-> IF Head(s) = "-" THEN -1 ELSE 1, rest |-> Tail(s)]
    ELSE [sign |-> 1, rest |-> s]

\* parseInt(text): the integer that the text starts with, NaN if it starts
\* with none.
parseInt(text) ==
    LET t == Signed(TrimStart(text))
        ds == LeadingDigits(t.rest)
    IN  IF ds = <<>> THEN NaN ELSE Number(t.sign * DigitsValue(ds, 0))

\* The first three digits of a fraction, in thousandths.
Thousandths(ds) ==
    LET padded == ds \o <<"0", "0", "0">>
    IN  DigitsValue(SubSeq(padded, 1, 3), 0)

\* parseFloat(text): the decimal number that the text starts with, NaN if
\* it starts with none.
parseFloat(text) ==
    LET t == Signed(TrimStart(text))
        whole == LeadingDigits(t.rest)
        after == SubSeq(t.rest, Len(whole) + 1, Len(t.rest))
        frac == IF after # <<>> /\ Head(after) = "."
                THEN LeadingDigits(Tail(after)) ELSE <<>>
    IN  IF whole = <<>> /\ frac = <<>> THEN NaN
        ELSE Number(t.sign * (1000 * DigitsValue(whole, 0) + Thousandths(frac)))

Absent == [present |-> FALSE, text |-> <<>>]

Text(t) == [present |-> TRUE, text |-> t]

\* searchParams.get(name) || fallback
GetOr(param, fallback) ==
    IF param.present /\ param.text # <<>> THEN param.text ELSE fallback

RADIUS_DEFAULT == <<"5", "0", "0", "0">>

RADIUS_MIN == 100

RADIUS_MAX == 50000

\* The routes: research (route.ts), stream (streaming proxy) and sample
\* (the route that filters the sample restaurants).
RouteKinds == {"research", "stream", "sample"}

CoordinateParams ==
    {Absent, Text(<<"a", "b", "c">>), Text(<<"3", "7", ".", "8">>),
     Text(<<"-", "1", "2", "2", ".", "4">>)}

RadiusParams ==
    {Absent, Text(<<"a", "b", "c">>), Text(<<"9", "9">>),
     Text(<<"1", "0", "0">>), Text(<<"2", "0", "0", "m">>),
     Text(<<"5", "0", "0", "0", "0">>), Text(<<"5", "0", "0", "0", "1">>),
     Text(<<"-", "5">>)}

\* A request that has reached GET.  called tells that the backend was
\* called or the result list computed; controller and calls are the state of
\* the response stream's controller and the calls made on it.
NewRequest(kind, lat, lng, radius) ==
    [phase |-> "received", kind |-> kind,
     lat |-> lat, lng |-> lng, radius |-> radius,
     status |-> 0, error |-> "none", called |-> FALSE, radiusUsed |-> NaN,
     controller |-> "none", calls |-> <<>>, threw |-> FALSE]

RouteOnly == UNCHANGED <<pipeline, home, client, service>>

InitRoute ==
    /\ PipelineIdle
    /\ home = HomeInitial
    /\ client = ClientInitial
    /\ service = ServiceInitial
    /\ route \in {NewRequest(k, lat, lng, r) :
                     k \in RouteKinds, lat \in CoordinateParams,
                     lng \in CoordinateParams, r \in RadiusParams}

\* GET up to its first await: parse and validate the parameters, then call
\* the backend or compute the list.
RouteValidate ==
    /\ route.phase = "received"
    /\ LET lat == parseFloat(GetOr(route.lat, <<>>))
           lng == parseFloat(GetOr(route.lng, <<>>))
           radius == parseInt(GetOr(route.radius, RADIUS_DEFAULT))
       IN  route' =
               IF isNaN(lat) \/ isNaN(lng)
               THEN [route EXCEPT
                        !.status = 400, !.phase = "done",
                        !.error = "Invalid latitude or longitude parameters"]
               ELSE IF JsLess(radius, RADIUS_MIN) \/ JsGreater(radius, RADIUS_MAX)
               THEN [route EXCEPT
                        !.status = 400, !.phase = "done",
                        !.error = "Radius must be between 100m and 50km"]
               ELSE IF route.kind = "sample"
               THEN [route EXCEPT !.status = 200, !.phase = "done",
                                  !.called = TRUE, !.radiusUsed = radius]
               ELSE [route EXCEPT !.phase = "upstream", !.called = TRUE,
                                  !.radiusUsed = radius]
    /\ RouteOnly

\* The backend answers.  A failure status is passed on; a successful answer
\* is returned as JSON, or proxied as a stream whose start callback closes
\* the controller at once when the answer has no body.
BackendResponds(ok, flaskStatus, hasBody) ==
    /\ route.phase = "upstream"
    /\ route' =
           IF ~ok
           THEN [route EXCEPT !.status = flaskStatus, !.phase = "done",
                              !.error = "Flask API error"]
           ELSE IF route.kind = "research"
           THEN [route EXCEPT !.status = 200, !.phase = "done"]
           ELSE IF ~hasBody
           THEN [route EXCEPT !.status = 200, !.phase = "done",
                              !.controller = "closed", !.calls = <<"close">>]
           ELSE [route EXCEPT !.status = 200, !.phase = "streaming",
                              !.controller = "readable"]
    /\ RouteOnly

\* The fetch of the backend throws: the outer catch answers 500.
BackendUnreachable ==
    /\ route.phase = "upstream"
    /\ route' = [route EXCEPT !.status = 500, !.phase = "done",
                              !.error = "Internal server error"]
    /\ RouteOnly

\* reader.read() delivers a chunk, which is enqueued.
ReadChunk ==
    /\ route.phase = "streaming"
    /\ Len(route.calls) < MaxChunks
    /\ route' = [route EXCEPT !.calls = Append(@, "enqueue")]
    /\ RouteOnly

\* reader.read() reports the end of the upstream: break, then finally.
ReadDone ==
    /\ route.phase = "streaming"
    /\ route' = [route EXCEPT !.calls = Append(@, "close"),
                              !.controller = "closed", !.phase = "done"]
    /\ RouteOnly

\* reader.read() rejects: catch errors the controller, then finally calls
\* close, which throws on a controller that is no longer readable.
ReadFails ==
    /\ route.phase = "streaming"
    /\ route' = [route EXCEPT !.calls = @ \o <<"error", "close">>,
                              !.controller = "errored", !.threw = TRUE,
                              !.phase = "done"]
    /\ RouteOnly

NextRoute ==
    \/ RouteValidate
    \/ \E ok \in BOOLEAN, flaskStatus \in {404, 500}, hasBody \in BOOLEAN :
           BackendResponds(ok, flaskStatus, hasBody)
    \/ BackendUnreachable
    \/ ReadChunk
    \/ ReadDone
    \/ ReadFails

SpecRoute == InitRoute /\ [][NextRoute]_vars

\* lat and lng parse as numbers and radius (5000 when not given) is a number
\* between 100 and 50000.
ValidQuery(r) ==
    LET radius == parseInt(GetOr(r.radius, RADIUS_DEFAULT))
    IN  /\ ~isNaN(parseFloat(GetOr(r.lat, <<>>)))
        /\ ~isNaN(parseFloat(GetOr(r.lng, <<>>)))
        /\ ~isNaN(radius)
        /\ radius.value >= RADIUS_MIN
        /\ radius.value <= RADIUS_MAX

\* C25: a route calls the backend or computes a result list only for a
\* valid query, and answers every other request with status 400.
C25_OnlyValidQueriesPass ==
    route.phase \notin {"none", "received"} =>
        /\ route.called => ValidQuery(route)
        /\ ~ValidQuery(route) => route.status = 400

FinishingCalls(calls) ==
    {i \in 1..Len(calls) : calls[i] \in {"close", "error"}}

\* C30: once the streaming proxy has finished, the controller of its
\* response stream was finished exactly once, by close or by error, and was
\* never closed after it was errored.
C30_ControllerFinishedOnce ==
    (route.phase = "done" /\ route.controller # "none") =>
        /\ Cardinality(FinishingCalls(route.calls)) = 1
        /\ \A i, j \in 1..Len(route.calls) :
               (i < j /\ route.calls[i] = "error") => route.calls[j] # "close"

(***************************************************************************)
(* Streaming test page                                                     *)
(***************************************************************************)
MaxResearched == 2

MaxLog == 6

MaxConnections == 3

\* addLog: the log grows by one entry; lengths from MaxLog on are not told
\* apart.
addLog(c) == [c EXCEPT !.eventLog = Min2(@ + 1, MaxLog)]

\* Effect on [location]: open an EventSource on the backend's stream.
Connect(c) ==
    [addLog(c) EXCEPT !.eventSource = [id |-> @.id + 1, open |-> TRUE],
                      !.streamStatus = "connecting",
                      !.server = "metadata"]

\* An event of the stream; total_to_research matters in metadata only.
StreamEvent(type, total_to_research) ==
    [type |-> type, total_to_research |-> total_to_research]

\* handleStreamEvent
handleStreamEvent(c, event) ==
    LET type == event.type IN
    CASE type = "metadata" ->
             addLog([c EXCEPT !.metadata = <<event.total_to_research>>,
                              !.streamStatus = "streaming"])
      [] type = "restaurant_researched" ->
             addLog([c EXCEPT !.researchedRestaurants = @ + 1])
      [] type = "restaurants_without_research" ->
             addLog([c EXCEPT !.nonResearchedRestaurants = TRUE])
      [] type = "complete" ->
             addLog([c EXCEPT !.streamStatus = "complete"])
      [] type = "error" ->
             addLog([c EXCEPT !.error = TRUE, !.streamStatus = "error"])

\* The events the backend may send next, in the order of its protocol:
\* metadata, the researched restaurants one by one, the remaining
\* restaurants, complete; an error event ends the stream at any point.
ServerEvents(c) ==
    CASE c.server = "metadata" ->
             {StreamEvent("metadata", n) : n \in 0..MaxResearched} \cup
             {StreamEvent("error", 0)}
      [] c.server = "research" ->
             (IF c.researchedRestaurants < c.metadata[1]
              THEN {StreamEvent("restaurant_researched", 0)}
              ELSE {StreamEvent("restaurants_without_research", 0)}) \cup
             {StreamEvent("error", 0)}
      [] c.server = "complete" ->
             {StreamEvent("complete", 0), StreamEvent("error", 0)}
      [] OTHER -> {}

ServerAfter(type) ==
    CASE type = "metadata" -> "research"
      [] type = "restaurant_researched" -> "research"
      [] type = "restaurants_without_research" -> "complete"
      [] OTHER -> "ended"

ClientOnly == UNCHANGED <<pipeline, home, route, service>>

InitClient ==
    /\ PipelineIdle
    /\ home = HomeInitial
    /\ route = NoRequest
    /\ service = ServiceInitial
    /\ client = ClientInitial

\* Mount effect: the browser reports the position; the location effect then
\* connects.
GeolocationSuccess ==
    /\ client.locating
    /\ client' = Connect(addLog([client EXCEPT !.locating = FALSE,
                                               !.location = TRUE]))
    /\ ClientOnly

GeolocationError ==
    /\ client.locating
    /\ client' = addLog([client EXCEPT !.locating = FALSE,
                                       !.locationError = TRUE])
    /\ ClientOnly

\* es.onmessage with an event of the backend.
StreamMessage(event) ==
    /\ client.eventSource.open
    /\ event \in ServerEvents(client)
    /\ client' = [handleStreamEvent(client, event) EXCEPT
                     !.server = ServerAfter(event.type)]
    /\ ClientOnly

\* es.onmessage with data that is not JSON: the parse error is logged.
StreamGarbage ==
    /\ client.eventSource.open
    /\ client' = addLog(client)
    /\ ClientOnly

\* es.onerror: the connection failed, or the backend ended the response.
StreamError ==
    /\ client.eventSource.open
    /\ client' = addLog([client EXCEPT !.streamStatus = "error",
                                       !.error = TRUE,
                                       !.eventSource.open = FALSE])
    /\ ClientOnly

\* handleReconnect, offered by the error banner: reset, drop the location
\* (the effect's cleanup closes the EventSource) and restore it later.
HandleReconnect ==
    /\ client.error
    /\ client.eventSource.id < MaxConnections
    /\ LET c == [client EXCEPT !.streamStatus = "idle",
                               !.metadata = <<>>,
                               !.researchedRestaurants = 0,
                               !.nonResearchedRestaurants = FALSE,
                               !.error = FALSE,
                               !.eventLog = 0]
       IN  client' =
               IF c.location
               THEN addLog([c EXCEPT !.location = FALSE,
                                     !.eventSource.open = FALSE,
                                     !.reconnectTimer = TRUE])
               ELSE c
    /\ ClientOnly

\* The timeout of handleReconnect restores the location; the effect connects.
ReconnectTimeout ==
    /\ client.reconnectTimer
    /\ client' = Connect([client EXCEPT !.reconnectTimer = FALSE,
                                        !.location = TRUE])
    /\ ClientOnly

NextClient ==
    \/ GeolocationSuccess
    \/ GeolocationError
    \/ \E type \in {"metadata", "restaurant_researched",
                    "restaurants_without_research", "complete", "error"},
          n \in 0..MaxResearched :
           StreamMessage(StreamEvent(type, n))
    \/ StreamGarbage
    \/ StreamError
    \/ HandleReconnect
    \/ ReconnectTimeout

SpecClient == InitClient /\ [][NextClient]_vars

\* C27: once the page has received the complete event, streamStatus stays
\* "complete" until the user reconnects (which makes it "idle").
C27_CompleteIsFinal ==
    [][client.streamStatus = "complete" =>
           client'.streamStatus \in {"complete", "idle"}]_vars

(***************************************************************************)
(* Location service                                                        *)
(*                                                                         *)
(* Times are milliseconds; the clock advances in steps of ClockStep.       *)
(***************************************************************************)
CACHE_TTL == 600000

ClockStep == 300000

MaxClockSteps == 5

MaxPending == 2

MaxLocations == 2

\* Positions the browser may report; the default location is none of them.
Locations == 1..MaxLocations

DefaultLocation == MaxLocations + 1

\* Variant of the cache test that ignores the expiry time.
CacheValidIgnoringExpiry(s) == s.cachedLocation # Null

\* this.cachedLocation && Date.now() < this.cacheExpiry
CacheValid(s) == s.cachedLocation # Null /\ s.now < s.cacheExpiry

\* The outcome of a call: what it returned or did, when, and the last
\* successful fix known at that time.
Call(s, kind, value) ==
    [at |-> s.now, kind |-> kind, value |-> value,
     fix |-> s.lastFix, fixAt |-> s.lastFixAt]

ServiceOnly == UNCHANGED <<pipeline, home, route, client>>

InitService ==
    /\ PipelineIdle
    /\ home = HomeInitial
    /\ route = NoRequest
    /\ client = ClientInitial
    /\ service = ServiceInitial

\* Time passes.
Tick ==
    /\ service.now < MaxClockSteps * ClockStep
    /\ service' = [service EXCEPT !.now = @ + ClockStep]
    /\ ServiceOnly

\* getCurrentLocation up to its await: return the cached location if it is
\* valid, otherwise query geolocation.
GetCurrentLocation ==
    /\ CacheValid(service) \/ service.pending < MaxPending
    /\ service' =
           IF CacheValid(service)
           THEN [service EXCEPT
                    !.lastCall = Call(service, "cached", service.cachedLocation)]
           ELSE [service EXCEPT
                    !.pending = @ + 1,
                    !.lastCall = Call(service, "query", Null)]
    /\ ServiceOnly

\* getCurrentLocation after its await, the query having succeeded: cache
\* the location for 10 minutes and return it.
GeolocationResolves(location) ==
    /\ service.pending > 0
    /\ service' = [service EXCEPT
                      !.pending = @ - 1,
                      !.cachedLocation = location,
                      !.cacheExpiry = service.now + CACHE_TTL,
                      !.lastFix = location,
                      !.lastFixAt = service.now,
                      !.lastCall = Call(service, "fix", location)]
    /\ ServiceOnly

\* The query failed: return the default location; the cache is untouched.
GeolocationRejects ==
    /\ service.pending > 0
    /\ service' = [service EXCEPT
                      !.pending = @ - 1,
                      !.lastCall = Call(service, "default", DefaultLocation)]
    /\ ServiceOnly

NextService ==
    \/ Tick
    \/ GetCurrentLocation
    \/ \E location \in Locations : GeolocationResolves(location)
    \/ GeolocationRejects

SpecService == InitService /\ [][NextService]_vars

\* C29: a call made less than 10 minutes after the last successful fix
\* returns that fix's location from the cache without querying geolocation;
\* a call made 10 minutes or more after it, or before any fix, queries
\* geolocation.
C29_CachedForTenMinutes ==
    LET c == service.lastCall
    IN  c.kind \in {"cached", "query"} =>
            IF c.fix # Null /\ c.at < c.fixAt + CACHE_TTL
            THEN c.kind = "cached" /\ c.value = c.fix
            ELSE c.kind = "query"

\* The service holds a fix that has expired, and the last call, made 10
\* minutes or more after the fix, queried geolocation again.
C29_Witness ==
    /\ service.lastFix # Null
    /\ service.cachedLocation = service.lastFix
    /\ service.lastCall.kind = "query"
    /\ service.lastCall.fix = service.lastFix
    /\ service.lastCall.at >= service.lastFixAt + CACHE_TTL

====
